---- MODULE Spec2Model ----
(***************************************************************************)
(* The article-pageview pipeline of predict_llm/src/main.rs as a state     *)
(* machine.  The state is the tables main() declares; the actions are the  *)
(* numbered steps [3]..[10] of main(), in program order (Spec).  The pure   *)
(* function compress_status is also run on its own, over a wider set of    *)
(* statuses (SpecStatus).                                                  *)
(*                                                                         *)
(* The repository's other programs have their own specifications:          *)
(* radix_sort of Sorting/radix.rs (SpecRadix), heap_sort of                *)
(* Sorting/heap.rs (SpecHeap) and the session handlers of                  *)
(* spectrum/src/main.rs (SpecSession).                                     *)
(*                                                                         *)
(* Strings are sequences of one-character strings, so that to_lowercase,   *)
(* contains and format! are computed character by character.               *)
(* f64 values are fixed-point integers in hundredths (1.00 is 100), except *)
(* the entries of dist_matrix, which the code only ever sets to 1.0 and    *)
(* which are kept as the integer 1.                                        *)
(***************************************************************************)
EXTENDS Integers, Sequences, FiniteSets, TLC

VARIABLES
    pc,                 \* the step of main() that runs next, "off" if main is not run
    arr_titles,         \* column "Title", one string per row
    arr_status,         \* column "Status", one string per row
    arr_pv,             \* column "Page views", whole view counts
    arr_url,            \* column "URL"
    arr_author,         \* column "Author"
    hash_words_count,   \* word -> occurrences            (main.rs:27)
    hash_pv,            \* word -> summed pageviews       (main.rs:28)
    hash_titles,        \* word -> (row -> pageviews)     (main.rs:29)
    hash_authors_count, \* author -> articles seen so far (main.rs:30)
    arr_categories,     \* category per row, empty until the row is processed
    arr_pv_new,         \* de-trended pageviews, in hundredths
    idx,                \* rows processed by the loop of step [4]
    hash_pv_rel,        \* word -> relative pageviews     (main.rs:84)
    category_pv,        \* category -> rows whose ln(pv) were summed
    category_count,     \* category -> number of rows
    short_list,         \* word -> index                  (main.rs:107)
    hash_pairs,         \* (word, word) -> similarity     (main.rs:112)
    dist_matrix,        \* the matrix given to KMedoids, <<>> until built
    labels,             \* the labels KMedoids returned, <<>> if none
    fn_status,          \* the argument of a lone call of compress_status
    fn_compressed,      \* its result, <<>> before the call
    radix_pc,           \* radix_sort: "off", "loop", "done" or "panicked"
    radix_input,        \* the vector radix_sort was called with
    radix_arr,          \* arr of radix_sort                (radix.rs:1)
    exp,                \* exp of radix_sort, a u32         (radix.rs:3)
    heap_pc,            \* heap_sort: "off", "heapify", "extract", "done", "panicked"
    heap_input,         \* the vector heap_sort was called with
    heap_arr,           \* arr of heap_sort                 (heap.rs:1)
    heap_start,         \* values of start still to run     (heap.rs:23)
    heap_end,           \* the next value of end, 0 if none (heap.rs:26)
    sessions,           \* AppState.sessions: id -> Session (main.rs:41)
    call                \* the last process_chat call: its request and evaluation

vars == <<pc, arr_titles, arr_status, arr_pv, arr_url, arr_author,
          hash_words_count, hash_pv, hash_titles, hash_authors_count,
          arr_categories, arr_pv_new, idx, hash_pv_rel, category_pv,
          category_count, short_list, hash_pairs, dist_matrix, labels,
          fn_status, fn_compressed,
          radix_pc, radix_input, radix_arr, exp,
          heap_pc, heap_input, heap_arr, heap_start, heap_end,
          sessions, call>>

inputs == <<arr_titles, arr_status, arr_pv, arr_url, arr_author>>

pure == <<fn_status, fn_compressed>>

words == <<hash_words_count, hash_pv, hash_titles>>

radix == <<radix_pc, radix_input, radix_arr, exp>>

heap == <<heap_pc, heap_input, heap_arr, heap_start, heap_end>>

session == <<sessions, call>>

\* everything main() of predict_llm does not touch
aside == <<pure, radix, heap, session>>

(***************************************************************************)
(* Bounds of the model.                                                    *)
(***************************************************************************)
MaxArticles == 53
MaxParts == 3

(***************************************************************************)
(* Program constants.                                                      *)
(***************************************************************************)
param_t1 == 80
param_t2 == 11
AuthorThreshold == 50
n_words == 10
n_clusters == 20

(***************************************************************************)
(* Strings.                                                                *)
(***************************************************************************)
UpperCase == <<"A", "B", "C", "D", "E", "F", "G", "H", "I", "J", "K", "L", "M",
               "N", "O", "P", "Q", "R", "S", "T", "U", "V", "W", "X", "Y", "Z">>

LowerCase == <<"a", "b", "c", "d", "e", "f", "g", "h", "i", "j", "k", "l", "m",
               "n", "o", "p", "q", "r", "s", "t", "u", "v", "w", "x", "y", "z">>

LowerOf ==
    [c \in {UpperCase[i] : i \in 1..Len(UpperCase)} |->
        LowerCase[CHOOSE i \in 1..Len(UpperCase) : UpperCase[i] = c]]

ToLowerChar(c) == IF c \in DOMAIN LowerOf THEN LowerOf[c] ELSE c

to_lowercase(s) == [i \in 1..Len(s) |-> ToLowerChar(s[i])]

contains(s, pat) ==
    \E i \in 0..(Len(s) - Len(pat)) : SubSeq(s, i + 1, i + Len(pat)) = pat

Tilde == <<"~">>

StrForum == <<"f", "o", "r", "u", "m">>
StrResource == <<"r", "e", "s", "o", "u", "r", "c", "e">>
StrForumQuestion == <<"f", "o", "r", "u", "m", "_", "q", "u", "e", "s", "t", "i", "o", "n">>
StrBlog == <<"b", "l", "o", "g">>

\* compress_status without the to_lowercase of its first line
compress_status_case_sensitive(status) ==
    IF contains(status, StrForum) THEN StrForumQuestion
    ELSE IF contains(status, StrResource) THEN StrResource
    ELSE StrBlog

compress_status(status) ==
    LET s == to_lowercase(status)
    IN  IF contains(s, StrForum) THEN StrForumQuestion
        ELSE IF contains(s, StrResource) THEN StrResource
        ELSE StrBlog

(***************************************************************************)
(* Step [3]: de-trending.  energy_boost = t1 * sqrt(k + t2 * len) and      *)
(* pv_new = pv * (1 + energy_boost), k counted from 0.                     *)
(***************************************************************************)
RECURSIVE SqrtUpper(_, _)
SqrtUpper(x, p) == IF p * p > x THEN p ELSE SqrtUpper(x, 2 * p)

RECURSIVE SqrtBetween(_, _, _)
SqrtBetween(x, lo, hi) ==
    \* the largest r in lo..hi-1 with r*r <= x, given lo*lo <= x < hi*hi
    IF hi - lo <= 1 THEN lo
    ELSE LET mid == (lo + hi) \div 2
         IN  IF mid * mid <= x THEN SqrtBetween(x, mid, hi)
             ELSE SqrtBetween(x, lo, mid)

sqrt(x) == SqrtBetween(x, 0, SqrtUpper(x, 1))

\* energy_boost with the rank k left out of the square root
energy_boost_lost_rank(k, len) ==
    sqrt((param_t1 * param_t1 * (param_t2 * len)) \div 100)

energy_boost(k, len) ==
    \* hundredths: 100 * 0.80 * sqrt((100k + 11 len) / 100)
    sqrt((param_t1 * param_t1 * (100 * k + param_t2 * len)) \div 100)

Detrend(pvs) ==
    [r \in 1..Len(pvs) |-> pvs[r] * (100 + energy_boost(r - 1, Len(pvs)))]

(***************************************************************************)
(* Step [4]: the category of a row, given the author's running count.      *)
(***************************************************************************)
\* CategoryOf with the comparison count >= 50 in place of count > 50
CategoryOf_at_threshold(status, url, author, count) ==
    LET category == compress_status(status) \o Tilde \o to_lowercase(url)
    IN  IF count >= AuthorThreshold
        THEN category \o Tilde \o author
        ELSE category

CategoryOf(status, url, author, count) ==
    LET category == compress_status(status) \o Tilde \o to_lowercase(url)
    IN  IF count > AuthorThreshold
        THEN category \o Tilde \o author
        ELSE category

\* column.get(idx).unwrap_or(""): a row the column has no value for reads as ""
get_or_empty(column, row) == IF row \in DOMAIN column THEN column[row] ELSE <<>>

Get(map, key, default) == IF key \in DOMAIN map THEN map[key] ELSE default

Put(map, key, value) ==
    [x \in DOMAIN map \cup {key} |-> IF x = key THEN value ELSE map[x]]

(***************************************************************************)
(* The corpora the model runs on.  A corpus has 0..MaxArticles rows; the   *)
(* author is "al" except on the rows of one subset of BobRows; the         *)
(* pageviews alternate between two of PvValues; the statuses cycle through *)
(* Statuses from some offset; the URLs alternate.                          *)
(***************************************************************************)
Al == <<"a", "l">>
Bo == <<"B", "o">>
BobRows == {1, AuthorThreshold + 1}
PvValues == {0, 150}
Statuses == << <<"B", "l", "o", "g">>,
               <<"F", "o", "r", "u", "m", " ", "q", "u", "e", "s", "t", "i", "o", "n">>,
               <<"R", "e", "s", "o", "u", "r", "c", "e">> >>
Urls == << <<"/", "A", "i">>, <<"/", "d", "b">> >>

Titles == << <<"D", "o", "g", "s", " ", "a", "r", "e", " ", "g", "r", "e", "a", "t", " ", "p", "e", "t", "s">>,
            <<"C", "a", "t", "s", " ", "a", "r", "e", " ", "g", "r", "e", "a", "t", " ", "p", "e", "t", "s">>,
            <<"D", "o", "g", "s", " ", "a", "n", "d", " ", "c", "a", "t", "s", " ", "t", "o", "g", "e", "t", "h", "e", "r">> >>

FamilyCorpus ==
    \E len \in 0..MaxArticles :
        /\ \E bob \in SUBSET BobRows :
              arr_author = [r \in 1..len |-> IF r \in bob THEN Bo ELSE Al]
        /\ \E a \in PvValues, b \in PvValues :
              arr_pv = [r \in 1..len |-> IF r % 2 = 1 THEN a ELSE b]
        /\ \E off \in 0..(Len(Statuses) - 1) :
              arr_status = [r \in 1..len |-> Statuses[((r + off) % Len(Statuses)) + 1]]
        /\ arr_url = [r \in 1..len |-> Urls[(r % Len(Urls)) + 1]]
        /\ arr_titles = [r \in 1..len |-> Titles[((r - 1) % Len(Titles)) + 1]]

\* the three-article corpus of the end-to-end scenario
Alice == <<"A", "l", "i", "c", "e">>
Bob == <<"B", "o", "b">>

ScenarioCorpus ==
    /\ arr_titles = Titles
    /\ arr_status = <<Statuses[1], Statuses[1], Statuses[2]>>
    /\ arr_pv = <<100, 200, 150>>
    /\ arr_url = <<Urls[1], Urls[2], Urls[1]>>
    /\ arr_author = <<Alice, Alice, Bob>>

IsScenario == arr_pv = <<100, 200, 150>> /\ Len(arr_author) = Len(arr_titles)

\* the same corpus with no author in its last row
RaggedCorpus ==
    /\ arr_titles = Titles
    /\ arr_status = <<Statuses[1], Statuses[1], Statuses[2]>>
    /\ arr_pv = <<100, 200, 150>>
    /\ arr_url = <<Urls[1], Urls[2], Urls[1]>>
    /\ arr_author = <<Alice, Alice>>

(***************************************************************************)
(* The other programs before they run.                                     *)
(***************************************************************************)
PureOff == fn_status = <<>> /\ fn_compressed = <<>>

RadixOff ==
    /\ radix_pc = "off"
    /\ radix_input = <<>>
    /\ radix_arr = <<>>
    /\ exp = [hi |-> 0, lo |-> 1]

HeapOff ==
    /\ heap_pc = "off"
    /\ heap_input = <<>>
    /\ heap_arr = <<>>
    /\ heap_start = 0
    /\ heap_end = 0

\* an evaluation text parse_evaluation finds no FeedbackResponse in
Unparsable ==
    [parsed |-> FALSE, feedback |-> <<>>, newly_identified_details |-> <<>>,
     hint |-> <<>>, advance_difficulty |-> FALSE]

NoCall ==
    [outcome |-> "none", user_message |-> <<>>, evaluation |-> Unparsable,
     difficulty |-> "", feedback |-> <<>>, should_advance |-> FALSE,
     all_identified |-> FALSE]

\* AppState as main() builds it: no sessions
SessionOff == sessions = <<>> /\ call = NoCall

Init ==
    /\ pc = "detrend"
    /\ (FamilyCorpus \/ ScenarioCorpus \/ RaggedCorpus)
    /\ arr_categories = [r \in 1..Len(arr_titles) |-> <<>>]
    /\ hash_words_count = <<>>
    /\ hash_pv = <<>>
    /\ hash_titles = <<>>
    /\ hash_authors_count = <<>>
    /\ arr_pv_new = <<>>
    /\ idx = 0
    /\ hash_pv_rel = <<>>
    /\ category_pv = <<>>
    /\ category_count = <<>>
    /\ short_list = <<>>
    /\ hash_pairs = <<>>
    /\ dist_matrix = <<>>
    /\ labels = <<>>
    /\ PureOff
    /\ RadixOff
    /\ HeapOff
    /\ SessionOff

(***************************************************************************)
(* Step [3], the whole loop.                                               *)
(***************************************************************************)
DetrendStep ==
    /\ pc = "detrend"
    /\ arr_pv_new' = Detrend(arr_pv)
    /\ pc' = "populate"
    /\ UNCHANGED <<inputs, aside, words, hash_authors_count,
                   arr_categories, idx, hash_pv_rel, category_pv,
                   category_count, short_list, hash_pairs, dist_matrix, labels>>

(***************************************************************************)
(* Step [4], one row of the loop: count the author, then set the category. *)
(***************************************************************************)
PopulateRow ==
    /\ pc = "populate"
    /\ idx < Len(arr_titles)
    /\ LET row == idx + 1
           status == get_or_empty(arr_status, row)
           url == get_or_empty(arr_url, row)
           author == get_or_empty(arr_author, row)
           counted == Put(hash_authors_count, author,
                          Get(hash_authors_count, author, 0) + 1)
       IN  /\ hash_authors_count' = counted
           /\ arr_categories' =
                 [arr_categories EXCEPT
                    ![row] = CategoryOf(status, url, author, counted[author])]
    /\ idx' = idx + 1
    /\ UNCHANGED <<pc, inputs, aside, words, arr_pv_new,
                   hash_pv_rel, category_pv, category_count, short_list,
                   hash_pairs, dist_matrix, labels>>

\* PopulateDone leaving the loop one row early
PopulateDone_one_row_early ==
    /\ pc = "populate"
    /\ idx + 1 >= Len(arr_titles)
    /\ pc' = "relative"
    /\ UNCHANGED <<inputs, aside, words, hash_authors_count,
                   arr_categories, arr_pv_new, idx, hash_pv_rel, category_pv,
                   category_count, short_list, hash_pairs, dist_matrix, labels>>

PopulateDone ==
    /\ pc = "populate"
    /\ idx = Len(arr_titles)
    /\ pc' = "relative"
    /\ UNCHANGED <<inputs, aside, words, hash_authors_count,
                   arr_categories, arr_pv_new, idx, hash_pv_rel, category_pv,
                   category_count, short_list, hash_pairs, dist_matrix, labels>>

(***************************************************************************)
(* Step [5]: relative pageviews of every word of hash_pv.                  *)
(***************************************************************************)
RelativeStep ==
    /\ pc = "relative"
    /\ hash_pv_rel' =
          [w \in DOMAIN hash_pv |-> hash_pv[w] \div Get(hash_words_count, w, 1)]
    /\ pc' = "category"
    /\ UNCHANGED <<inputs, aside, words, hash_authors_count,
                   arr_categories, arr_pv_new, idx, category_pv,
                   category_count, short_list, hash_pairs, dist_matrix, labels>>

(***************************************************************************)
(* Step [6]: per category, the sum of ln(arr_pv_new[i]) over its rows,     *)
(* divided by the number of rows.  The sum is kept as the set of rows it   *)
(* was taken over.                                                         *)
(***************************************************************************)
CategoryStep ==
    /\ pc = "category"
    /\ LET cats == {arr_categories[i] : i \in 1..Len(arr_categories)}
           rows(c) == {i \in 1..Len(arr_categories) : arr_categories[i] = c}
       IN  /\ category_pv' = [c \in cats |-> rows(c)]
           /\ category_count' = [c \in cats |-> Cardinality(rows(c))]
    /\ pc' = "distance"
    /\ UNCHANGED <<inputs, aside, words, hash_authors_count,
                   arr_categories, arr_pv_new, idx, hash_pv_rel, short_list,
                   hash_pairs, dist_matrix, labels>>

(***************************************************************************)
(* Step [9], first half: the distance matrix, n_words x n_words of 1.0.    *)
(***************************************************************************)
from_elem(n, value) == [i \in 0..(n - 1) |-> [j \in 0..(n - 1) |-> value]]

DistanceStep ==
    /\ pc = "distance"
    /\ dist_matrix' = from_elem(n_words, 1)
    /\ pc' = "fit"
    /\ UNCHANGED <<inputs, aside, words, hash_authors_count,
                   arr_categories, arr_pv_new, idx, hash_pv_rel, category_pv,
                   category_count, short_list, hash_pairs, labels>>

(***************************************************************************)
(* Step [9], second half: KMedoids::params(n_clusters).fit(&dist_matrix)   *)
(* .expect(..).  The fit is a library call: it returns Err, and expect     *)
(* panics, or it returns Ok with one label below n_clusters per row of the *)
(* matrix, and the labels are printed.                                     *)
(***************************************************************************)
FitLabels ==
    { [i \in 0..(n_words - 1) |-> 0],
      [i \in 0..(n_words - 1) |-> i % n_clusters] }

FitErr ==
    /\ pc = "fit"
    /\ pc' = "panicked"
    /\ UNCHANGED <<inputs, aside, words, hash_authors_count,
                   arr_categories, arr_pv_new, idx, hash_pv_rel, category_pv,
                   category_count, short_list, hash_pairs, dist_matrix, labels>>

FitOk ==
    /\ pc = "fit"
    /\ \E l \in FitLabels : labels' = l
    /\ pc' = "plot"
    /\ UNCHANGED <<inputs, aside, words, hash_authors_count,
                   arr_categories, arr_pv_new, idx, hash_pv_rel, category_pv,
                   category_count, short_list, hash_pairs, dist_matrix>>

(***************************************************************************)
(* Step [10] and the plot: nothing of the tables changes; main returns Ok. *)
(***************************************************************************)
PlotStep ==
    /\ pc = "plot"
    /\ pc' = "done"
    /\ UNCHANGED <<inputs, aside, words, hash_authors_count,
                   arr_categories, arr_pv_new, idx, hash_pv_rel, category_pv,
                   category_count, short_list, hash_pairs, dist_matrix, labels>>

Next ==
    \/ DetrendStep
    \/ PopulateRow
    \/ PopulateDone
    \/ RelativeStep
    \/ CategoryStep
    \/ DistanceStep
    \/ FitErr
    \/ FitOk
    \/ PlotStep

Spec == Init /\ [][Next]_vars

(***************************************************************************)
(* compress_status on its own.  A status is up to MaxParts fragments put   *)
(* together, so that the words it looks for occur in either case, whole,   *)
(* broken, joined across fragments, alone and together.                    *)
(***************************************************************************)
StatusFragments ==
    { <<>>,
      <<"F", "o", "r", "u", "m">>,
      <<"f", "o", "r", "u", "m">>,
      <<"R", "e", "s", "o", "u", "r", "c", "e">>,
      <<"r", "e", "s", "o", "u", "r", "c", "e">>,
      <<"f", "o", "r", "u">>,
      <<"m", " ">>,
      <<"B", "l", "o", "g">> }

RECURSIVE Concat(_)
Concat(parts) == IF parts = <<>> THEN <<>> ELSE Head(parts) \o Concat(Tail(parts))

StatusInputs == {Concat(parts) : parts \in [1..MaxParts -> StatusFragments]}

MainOff ==
    /\ pc = "off"
    /\ arr_titles = <<>>
    /\ arr_status = <<>>
    /\ arr_pv = <<>>
    /\ arr_url = <<>>
    /\ arr_author = <<>>
    /\ hash_words_count = <<>>
    /\ hash_pv = <<>>
    /\ hash_titles = <<>>
    /\ hash_authors_count = <<>>
    /\ arr_categories = <<>>
    /\ arr_pv_new = <<>>
    /\ idx = 0
    /\ hash_pv_rel = <<>>
    /\ category_pv = <<>>
    /\ category_count = <<>>
    /\ short_list = <<>>
    /\ hash_pairs = <<>>
    /\ dist_matrix = <<>>
    /\ labels = <<>>

main == <<pc, inputs, words, hash_authors_count, arr_categories, arr_pv_new,
          idx, hash_pv_rel, category_pv, category_count, short_list,
          hash_pairs, dist_matrix, labels>>

InitStatus ==
    /\ MainOff
    /\ fn_status \in StatusInputs
    /\ fn_compressed = <<>>
    /\ RadixOff
    /\ HeapOff
    /\ SessionOff

CompressCall ==
    /\ pc = "off"
    /\ fn_compressed = <<>>
    /\ fn_compressed' = compress_status(fn_status)
    /\ UNCHANGED <<main, fn_status, radix, heap, session>>

NextStatus == CompressCall

SpecStatus == InitStatus /\ [][NextStatus]_vars

(***************************************************************************)
(* radix_sort (Sorting/radix.rs).  A u32 is kept as two 16-bit halves, so  *)
(* that exp *= 10 is computed modulo 2^32; the elements of arr are below   *)
(* 2^31.  A build with overflow checks panics where the product leaves     *)
(* u32, a build without them wraps: both outcomes are steps of the model.  *)
(***************************************************************************)
MaxRadixLen == 3

Limb == 65536

MaxU32Div10 == 429496729

U32(n) == [hi |-> n \div Limb, lo |-> n % Limb]

\* the u32 is below 2^31
Representable(e) == e.hi < Limb \div 2

Value(e) == e.hi * Limb + e.lo

IsZero(e) == e.hi = 0 /\ e.lo = 0

\* e * 10 does not fit a u32
MulOverflows(e) == ~Representable(e) \/ Value(e) > MaxU32Div10

\* e * 10 modulo 2^32
wrapping_mul10(e) ==
    LET low == e.lo * 10
    IN  [hi |-> (e.hi * 10 + low \div Limb) % Limb, lo |-> low % Limb]

\* num / e for num below 2^31 and e not zero
Div(num, e) == IF Representable(e) THEN num \div Value(e) ELSE 0

RECURSIVE MaxOf(_, _)
MaxOf(arr, i) ==
    IF i = 0 THEN 0
    ELSE LET rest == MaxOf(arr, i - 1)
         IN  IF arr[i] > rest THEN arr[i] ELSE rest

\* *arr.iter().max().unwrap_or(&0)
max_num(arr) == MaxOf(arr, Len(arr))

digit(num, e) == Div(num, e) % 10

\* count after the prefix sums: the elements whose digit is at most d
count(arr, e) ==
    [d \in 0..9 |-> Cardinality({i \in DOMAIN arr : digit(arr[i], e) <= d})]

\* the loop over arr.iter().rev(): output[count[digit] - 1] = num
RECURSIVE place(_, _, _, _, _)
place(arr, e, i, cnt, output) ==
    IF i = 0 THEN output
    ELSE LET d == digit(arr[i], e)
         IN  place(arr, e, i - 1, [cnt EXCEPT ![d] = @ - 1],
                   [output EXCEPT ![cnt[d]] = arr[i]])

\* one run of the body of the while loop, up to arr.copy_from_slice
counting_pass(arr, e) ==
    place(arr, e, Len(arr), count(arr, e), [i \in DOMAIN arr |-> 0])

RadixValues == {0, 2, 45, 170, 802, 999999999, 1000000000, 2000000000}

RadixInputs == UNION {[1..n -> RadixValues] : n \in 0..MaxRadixLen}

InitRadix ==
    /\ MainOff
    /\ PureOff
    /\ HeapOff
    /\ SessionOff
    /\ radix_pc = "loop"
    /\ radix_input \in RadixInputs
    /\ radix_arr = radix_input
    /\ exp = U32(1)

LoopRuns ==
    /\ radix_pc = "loop"
    /\ ~IsZero(exp)
    /\ Div(max_num(radix_input), exp) > 0

RadixPass ==
    /\ LoopRuns
    /\ ~MulOverflows(exp)
    /\ radix_arr' = counting_pass(radix_arr, exp)
    /\ exp' = wrapping_mul10(exp)
    /\ UNCHANGED <<main, pure, heap, session, radix_pc, radix_input>>

\* exp *= 10 leaves u32 in a build with overflow checks
RadixPassOverflowPanics ==
    /\ LoopRuns
    /\ MulOverflows(exp)
    /\ radix_arr' = counting_pass(radix_arr, exp)
    /\ radix_pc' = "panicked"
    /\ UNCHANGED <<main, pure, heap, session, radix_input, exp>>

\* exp *= 10 leaves u32 in a build without overflow checks
RadixPassOverflowWraps ==
    /\ LoopRuns
    /\ MulOverflows(exp)
    /\ radix_arr' = counting_pass(radix_arr, exp)
    /\ exp' = wrapping_mul10(exp)
    /\ UNCHANGED <<main, pure, heap, session, radix_pc, radix_input>>

\* the test of the while loop fails, or divides by an exp that wrapped to 0
RadixExit ==
    /\ radix_pc = "loop"
    /\ (IsZero(exp) \/ Div(max_num(radix_input), exp) = 0)
    /\ radix_pc' = IF IsZero(exp) THEN "panicked" ELSE "done"
    /\ UNCHANGED <<main, pure, heap, session, radix_input, radix_arr, exp>>

NextRadix ==
    \/ RadixPass
    \/ RadixPassOverflowPanics
    \/ RadixPassOverflowWraps
    \/ RadixExit

SpecRadix == InitRadix /\ [][NextRadix]_vars

(***************************************************************************)
(* heap_sort (Sorting/heap.rs).  Indices are the code's, from 0; an index  *)
(* outside the slice makes the call panic.                                 *)
(***************************************************************************)
MaxHeapLen == 6

InBounds(arr, i) == i \in 0..(Len(arr) - 1)

At(arr, i) == arr[i + 1]

\* arr.swap(i, j)
arr_swap(arr, i, j) ==
    [arr EXCEPT ![i + 1] = arr[j + 1], ![j + 1] = arr[i + 1]]

RECURSIVE sift_down_past_end(_, _, _)
sift_down_past_end(arr, root, end) ==
    IF root * 2 + 1 > end THEN [arr |-> arr, ok |-> TRUE]
    ELSE LET child == root * 2 + 1
         IN  IF ~(InBounds(arr, root) /\ InBounds(arr, child))
             THEN [arr |-> arr, ok |-> FALSE]
             ELSE LET first == IF At(arr, root) < At(arr, child)
                               THEN child ELSE root
                  IN  IF child + 1 <= end + 1 /\ ~InBounds(arr, child + 1)
                      THEN [arr |-> arr, ok |-> FALSE]
                      ELSE LET swap == IF /\ child + 1 <= end + 1
                                          /\ At(arr, first) < At(arr, child + 1)
                                       THEN child + 1 ELSE first
                           IN  IF swap = root
                               THEN [arr |-> arr, ok |-> TRUE]
                               ELSE sift_down_past_end(
                                        arr_swap(arr, root, swap), swap, end)

\* sift_down(arr, start, end): the slice it leaves, and whether every index
\* it used was inside the slice
RECURSIVE sift_down(_, _, _)
sift_down(arr, root, end) ==
    IF root * 2 + 1 > end THEN [arr |-> arr, ok |-> TRUE]
    ELSE LET child == root * 2 + 1
         IN  IF ~(InBounds(arr, root) /\ InBounds(arr, child))
             THEN [arr |-> arr, ok |-> FALSE]
             ELSE LET first == IF At(arr, root) < At(arr, child)
                               THEN child ELSE root
                  IN  IF child + 1 <= end /\ ~InBounds(arr, child + 1)
                      THEN [arr |-> arr, ok |-> FALSE]
                      ELSE LET swap == IF /\ child + 1 <= end
                                          /\ At(arr, first) < At(arr, child + 1)
                                       THEN child + 1 ELSE first
                           IN  IF swap = root
                               THEN [arr |-> arr, ok |-> TRUE]
                               ELSE sift_down(arr_swap(arr, root, swap), swap, end)

HeapValues == {-7, 0, 11}

HeapInputs == UNION {[1..n -> HeapValues] : n \in 0..MaxHeapLen}

InitHeap ==
    /\ MainOff
    /\ PureOff
    /\ RadixOff
    /\ SessionOff
    /\ heap_pc = "heapify"
    /\ heap_input \in HeapInputs
    /\ heap_arr = heap_input
    /\ heap_start = Len(heap_input) \div 2
    /\ heap_end = 0

\* one iteration of for start in (0..n/2).rev()
HeapifyStep ==
    /\ heap_pc = "heapify"
    /\ heap_start > 0
    /\ LET start == heap_start - 1
           sifted == sift_down(heap_arr, start, Len(heap_arr) - 1)
       IN  /\ heap_arr' = sifted.arr
           /\ heap_start' = start
           /\ heap_pc' = IF sifted.ok THEN "heapify" ELSE "panicked"
    /\ UNCHANGED <<main, pure, radix, session, heap_input, heap_end>>

\* the first loop is over; (1..n).rev() starts at n - 1 and is empty for n < 2
HeapifyDone ==
    /\ heap_pc = "heapify"
    /\ heap_start = 0
    /\ heap_pc' = "extract"
    /\ heap_end' = IF Len(heap_arr) = 0 THEN 0 ELSE Len(heap_arr) - 1
    /\ UNCHANGED <<main, pure, radix, session, heap_input, heap_arr, heap_start>>

\* one iteration of for end in (1..n).rev()
ExtractStep ==
    /\ heap_pc = "extract"
    /\ heap_end >= 1
    /\ LET inside == InBounds(heap_arr, heap_end) /\ InBounds(heap_arr, 0)
           swapped == IF inside THEN arr_swap(heap_arr, heap_end, 0) ELSE heap_arr
           sifted == sift_down(swapped, 0, heap_end - 1)
       IN  /\ heap_arr' = IF inside THEN sifted.arr ELSE heap_arr
           /\ heap_end' = heap_end - 1
           /\ heap_pc' = IF inside /\ sifted.ok THEN "extract" ELSE "panicked"
    /\ UNCHANGED <<main, pure, radix, session, heap_input, heap_start>>

ExtractDone ==
    /\ heap_pc = "extract"
    /\ heap_end < 1
    /\ heap_pc' = "done"
    /\ UNCHANGED <<main, pure, radix, session, heap_input, heap_arr, heap_start,
                   heap_end>>

NextHeap == HeapifyStep \/ HeapifyDone \/ ExtractStep \/ ExtractDone

SpecHeap == InitHeap /\ [][NextHeap]_vars

(***************************************************************************)
(* The sessions of spectrum/src/main.rs.  A Session is kept by the fields  *)
(* the handlers branch on: chat, key_details, identified_details,          *)
(* used_hints and difficulty.  A text is a sequence of strings.  What the  *)
(* external services return (the evaluation text, the key details of a     *)
(* new image) is chosen freely.  process_chat_handler holds the write lock *)
(* of sessions from its first step to its return, so a call is one step;   *)
(* a call whose regeneration of the image panics (the unwrap of a failed   *)
(* request) or is dropped ends after steps 3 to 5, which is a step of its  *)
(* own.  A call that fails before step 3 changes nothing.                  *)
(***************************************************************************)
MaxChat == 3

SessionId == "s1"

difficulties == <<"Very Simple", "Simple", "Moderate", "Detailed", "Very Detailed">>

\* difficulties.iter().position(..), counted from 1; 0 for None
position(d) ==
    IF \E i \in DOMAIN difficulties : difficulties[i] = d
    THEN CHOOSE i \in DOMAIN difficulties : difficulties[i] = d
    ELSE 0

new_difficulty_two_levels(current_difficulty, advance_difficulty) ==
    IF /\ advance_difficulty
       /\ position(current_difficulty) # 0
       /\ position(current_difficulty) < Len(difficulties)
    THEN IF position(current_difficulty) + 2 <= Len(difficulties)
         THEN difficulties[position(current_difficulty) + 2]
         ELSE difficulties[Len(difficulties)]
    ELSE current_difficulty

new_difficulty(current_difficulty, advance_difficulty) ==
    IF /\ advance_difficulty
       /\ position(current_difficulty) # 0
       /\ position(current_difficulty) < Len(difficulties)
    THEN difficulties[position(current_difficulty) + 1]
    ELSE current_difficulty

push_always(list, item) == Append(list, item)

\* if !list.contains(item) { list.push(item) }
push_if_absent(list, item) ==
    IF \E i \in DOMAIN list : list[i] = item THEN list ELSE Append(list, item)

\* the loop over newly_identified
RECURSIVE push_all(_, _)
push_all(list, items) ==
    IF items = <<>> THEN list
    ELSE push_all(push_if_absent(list, Head(items)), Tail(items))

HintMark == <<"\n\nHint: ">>

DefaultFeedback == <<"That's interesting! Can you tell me more about what you see?">>

\* what parse_evaluation returns, and used_hints as it leaves it
parse_evaluation(evaluation, s) ==
    IF evaluation.parsed
    THEN [feedback |->
              IF evaluation.hint # <<>> /\ ~contains(evaluation.feedback, evaluation.hint)
              THEN evaluation.feedback \o HintMark \o evaluation.hint
              ELSE evaluation.feedback,
          new_difficulty |-> new_difficulty(s.difficulty, evaluation.advance_difficulty),
          should_advance |-> evaluation.advance_difficulty,
          newly_identified |-> evaluation.newly_identified_details,
          used_hints |->
              IF evaluation.hint # <<>>
              THEN push_if_absent(s.used_hints, evaluation.hint)
              ELSE s.used_hints]
    ELSE [feedback |-> DefaultFeedback,
          new_difficulty |-> s.difficulty,
          should_advance |-> FALSE,
          newly_identified |-> <<>>,
          used_hints |-> s.used_hints]

advancement_message(should_advance, difficulty) ==
    IF should_advance
    THEN <<"Congratulations! You've advanced to ", difficulty,
           " difficulty! Here's a new image to describe.">>
    ELSE <<"Great job identifying all the details! Here's a new image at the same difficulty level.">>

\* steps 2 to 6 of process_chat_handler
Evaluated(s, user_message, evaluation) ==
    LET parsed == parse_evaluation(evaluation, s)
        identified == push_all(s.identified_details, parsed.newly_identified)
    IN  [session |-> [s EXCEPT
                        !.used_hints = parsed.used_hints,
                        !.identified_details = identified,
                        !.chat = s.chat \o <<<<"Child", user_message>>,
                                             <<"Teacher", parsed.feedback>>>>],
         feedback |-> parsed.feedback,
         new_difficulty |-> parsed.new_difficulty,
         should_advance |-> parsed.should_advance,
         all_identified |-> Len(identified) >= Len(s.key_details)]

\* step 7: the session gets a new image
Advanced(s, should_advance, next_difficulty, key_details) ==
    LET difficulty == IF should_advance THEN next_difficulty ELSE s.difficulty
    IN  [s EXCEPT
           !.difficulty = difficulty,
           !.key_details = key_details,
           !.identified_details = <<>>,
           !.used_hints = <<>>,
           !.chat = <<<<"System", advancement_message(should_advance, next_difficulty)>>>>]

FallbackDetails == <<"object in image", "color", "shape", "background">>

\* what extract_key_details can return
KeyDetailLists == {<<>>, <<"ball", "sky">>, FallbackDetails}

Messages == {<<"a ball">>, <<"the sky">>}

Evaluations ==
    {Unparsable} \cup
    [parsed : {TRUE},
     feedback : {<<"ok">>, <<"ok", "look up">>},
     newly_identified_details :
         {<<>>, <<"ball", "ball">>, <<"sky", "ball">>},
     hint : {<<>>, <<"look up">>},
     advance_difficulty : BOOLEAN]

InitSession ==
    /\ MainOff
    /\ PureOff
    /\ RadixOff
    /\ HeapOff
    /\ SessionOff

generate_image_handler ==
    /\ sessions = <<>>
    /\ \E key_details \in KeyDetailLists :
          sessions' = [id \in {SessionId} |->
                          [chat |-> <<>>,
                           key_details |-> key_details,
                           identified_details |-> <<>>,
                           used_hints |-> <<>>,
                           difficulty |-> "Very Simple"]]
    /\ UNCHANGED <<main, pure, radix, heap, call>>

CallOf(outcome, s, user_message, evaluation, result) ==
    [outcome |-> outcome, user_message |-> user_message,
     evaluation |-> evaluation, difficulty |-> s.difficulty,
     feedback |-> result.feedback,
     should_advance |-> result.should_advance,
     all_identified |-> result.all_identified]

\* a call that returns its response
process_chat_handler ==
    /\ SessionId \in DOMAIN sessions
    /\ Len(sessions[SessionId].chat) < MaxChat
    /\ \E user_message \in Messages, evaluation \in Evaluations :
          LET s == sessions[SessionId]
              result == Evaluated(s, user_message, evaluation)
          IN  /\ IF result.should_advance \/ result.all_identified
                 THEN \E key_details \in KeyDetailLists :
                          sessions' = [sessions EXCEPT ![SessionId] =
                              Advanced(result.session, result.should_advance,
                                       result.new_difficulty, key_details)]
                 ELSE sessions' = [sessions EXCEPT ![SessionId] = result.session]
              /\ call' = CallOf("returned", s, user_message, evaluation, result)
    /\ UNCHANGED <<main, pure, radix, heap>>

\* a call that ends inside the regeneration of step 7, before the session
\* is given the new image
process_chat_handler_aborted ==
    /\ SessionId \in DOMAIN sessions
    /\ Len(sessions[SessionId].chat) < MaxChat
    /\ \E user_message \in Messages, evaluation \in Evaluations :
          LET s == sessions[SessionId]
              result == Evaluated(s, user_message, evaluation)
          IN  /\ result.should_advance \/ result.all_identified
              /\ sessions' = [sessions EXCEPT ![SessionId] = result.session]
              /\ call' = CallOf("aborted", s, user_message, evaluation, result)
    /\ UNCHANGED <<main, pure, radix, heap>>

NextSession ==
    \/ generate_image_handler
    \/ process_chat_handler
    \/ process_chat_handler_aborted

SpecSession == InitSession /\ [][NextSession]_vars

(***************************************************************************)
(* Properties.                                                             *)
(***************************************************************************)
Rows == 1..Len(arr_status)

FitHasRun == pc \in {"plot", "done", "panicked"}

\* C1: run with n_words < k, the clustering step ends in a reported
\* configuration error: it does not panic and it produces no cluster
\* assignment.
C1_SmallShortlistReported ==
    (n_words < n_clusters /\ FitHasRun) => (pc # "panicked" /\ labels = <<>>)

\* C3: in every distance matrix handed to the clustering step, every entry
\* lies in [0, 1] and every diagonal entry is exactly 0.
C3_DistanceBoundsAndDiagonal ==
    dist_matrix # <<>> =>
        \A i \in DOMAIN dist_matrix :
            /\ dist_matrix[i][i] = 0
            /\ \A j \in DOMAIN dist_matrix[i] :
                  0 <= dist_matrix[i][j] /\ dist_matrix[i][j] <= 1

Detrended == pc # "detrend"

\* C9 as stated: two records with identical raw pageviews and ranks k1 < k2
\* have detrended(k1) < detrended(k2).
C9_DetrendMonotone ==
    Detrended =>
        \A k1 \in Rows, k2 \in Rows :
            (k1 < k2 /\ arr_pv[k1] = arr_pv[k2]) => arr_pv_new[k1] < arr_pv_new[k2]

\* C9 amended: two records with identical raw pageviews greater than zero
\* and ranks k1 < k2 have detrended(k1) < detrended(k2).
C9_DetrendMonotonePositive ==
    Detrended =>
        \A k1 \in Rows, k2 \in Rows :
            (k1 < k2 /\ arr_pv[k1] = arr_pv[k2] /\ arr_pv[k1] > 0)
                => arr_pv_new[k1] < arr_pv_new[k2]

C9_Witness ==
    /\ Detrended
    /\ \E k1 \in Rows, k2 \in Rows :
          /\ k1 < k2
          /\ arr_pv[k1] = arr_pv[k2]
          /\ arr_pv[k1] > 0
          /\ arr_pv_new[k1] < arr_pv_new[k2]

\* the author of a row as step [4] reads it
AuthorAt(row) == get_or_empty(arr_author, row)

\* the articles of row's author among the rows up to and including row
RunningCount(row) ==
    Cardinality({r \in 1..row : AuthorAt(r) = AuthorAt(row)})

BaseCategory(row) ==
    compress_status(get_or_empty(arr_status, row))
        \o Tilde \o to_lowercase(get_or_empty(arr_url, row))

\* C10: every processed article's category is the base category followed by
\* "~author" exactly when the author's running article count, the current
\* article included, exceeds the threshold of 50; otherwise it is the base
\* category alone.
C10_AuthorSuffix ==
    \A row \in 1..idx :
        /\ RunningCount(row) > AuthorThreshold
              => arr_categories[row] = BaseCategory(row) \o Tilde \o AuthorAt(row)
        /\ RunningCount(row) <= AuthorThreshold
              => arr_categories[row] = BaseCategory(row)

C10_Witness ==
    /\ idx > AuthorThreshold
    /\ \E later \in (AuthorThreshold + 1)..idx :
          /\ RunningCount(later) = AuthorThreshold + 1
          /\ arr_categories[later] = BaseCategory(later) \o Tilde \o AuthorAt(later)
          /\ \E first \in AuthorThreshold..(later - 1) :
                /\ AuthorAt(first) = AuthorAt(later)
                /\ RunningCount(first) = AuthorThreshold
                /\ arr_categories[first] = BaseCategory(first)

\* C11 as stated: compress returns one of "forum_question", "resource",
\* "blog": "forum_question" for every status containing "forum", "resource"
\* for every status containing "resource" and not "forum", "blog" for every
\* other status.
C11_CompressStatus ==
    fn_compressed # <<>> =>
        /\ fn_compressed \in {StrForumQuestion, StrResource, StrBlog}
        /\ contains(fn_status, StrForum) => fn_compressed = StrForumQuestion
        /\ (contains(fn_status, StrResource) /\ ~contains(fn_status, StrForum))
              => fn_compressed = StrResource
        /\ (~contains(fn_status, StrResource) /\ ~contains(fn_status, StrForum))
              => fn_compressed = StrBlog

\* C11 amended: the same, with "containing" read on the lowercased status:
\* "forum_question" when the lowercased status contains "forum", "resource"
\* when it contains "resource" and not "forum", "blog" otherwise.
C11_CompressStatusLowercased ==
    fn_compressed # <<>> =>
        LET s == to_lowercase(fn_status)
        IN  /\ fn_compressed \in {StrForumQuestion, StrResource, StrBlog}
            /\ contains(s, StrForum) => fn_compressed = StrForumQuestion
            /\ (contains(s, StrResource) /\ ~contains(s, StrForum))
                  => fn_compressed = StrResource
            /\ (~contains(s, StrResource) /\ ~contains(s, StrForum))
                  => fn_compressed = StrBlog

C11_Witness ==
    /\ fn_compressed = StrForumQuestion
    /\ ~contains(fn_status, StrForum)
    /\ contains(fn_status, StrResource)

(***************************************************************************)
(* The tokens of a title as specified (Token Extractor): split on          *)
(* whitespace, keep the alphanumeric characters and hyphens of each word,  *)
(* lowercase, drop the result if its length is at most 2.  main() has no   *)
(* tokenizer; these definitions say what the properties below expect.      *)
(***************************************************************************)
Digits == {"0", "1", "2", "3", "4", "5", "6", "7", "8", "9"}

IsTokenChar(c) ==
    \/ c \in DOMAIN LowerOf
    \/ c \in {LowerOf[u] : u \in DOMAIN LowerOf}
    \/ c \in Digits
    \/ c = "-"

RECURSIVE SplitWhitespace(_, _)
SplitWhitespace(s, word) ==
    IF s = <<>> THEN (IF word = <<>> THEN <<>> ELSE <<word>>)
    ELSE IF Head(s) = " "
         THEN (IF word = <<>> THEN <<>> ELSE <<word>>) \o SplitWhitespace(Tail(s), <<>>)
         ELSE SplitWhitespace(Tail(s), Append(word, Head(s)))

CleanWord(word) == to_lowercase(SelectSeq(word, IsTokenChar))

LongEnough(token) == Len(token) > 2

Tokens(title) ==
    LET split == SplitWhitespace(title, <<>>)
    IN  SelectSeq([i \in 1..Len(split) |-> CleanWord(split[i])], LongEnough)

TokenSet(row) ==
    LET t == Tokens(arr_titles[row]) IN {t[i] : i \in 1..Len(t)}

Occurrences(w, row) ==
    LET t == Tokens(arr_titles[row]) IN Cardinality({i \in 1..Len(t) : t[i] = w})

RECURSIVE CountUpTo(_, _)
CountUpTo(w, row) ==
    IF row = 0 THEN 0 ELSE CountUpTo(w, row - 1) + Occurrences(w, row)

RECURSIVE ScoreUpTo(_, _)
ScoreUpTo(w, row) ==
    IF row = 0 THEN 0
    ELSE ScoreUpTo(w, row - 1) + Occurrences(w, row) * arr_pv_new[row]

\* C12: after any prefix of the corpus has been processed, every token seen
\* has a count equal to its number of occurrences (at least 1) and a total
\* equal to the sum of the de-trended scores of its occurrences, and every
\* processed article's feature set maps each distinct token of its title to
\* that article's de-trended score.
C12_WordStats ==
    LET seen == UNION {TokenSet(r) : r \in 1..idx}
    IN  /\ DOMAIN hash_words_count = seen
        /\ DOMAIN hash_pv = seen
        /\ \A w \in seen :
              /\ hash_words_count[w] = CountUpTo(w, idx)
              /\ hash_words_count[w] >= 1
              /\ hash_pv[w] = ScoreUpTo(w, idx)
        /\ \A r \in 1..idx : \A w \in TokenSet(r) :
              /\ w \in DOMAIN hash_titles
              /\ (r - 1) \in DOMAIN hash_titles[w]
              /\ hash_titles[w][r - 1] = arr_pv_new[r]

WDogs == <<"d", "o", "g", "s">>
WAre == <<"a", "r", "e">>
WGreat == <<"g", "r", "e", "a", "t">>
WPets == <<"p", "e", "t", "s">>
WCats == <<"c", "a", "t", "s">>
WAnd == <<"a", "n", "d">>
WTogether == <<"t", "o", "g", "e", "t", "h", "e", "r">>

ScenarioWords == {WDogs, WAre, WGreat, WPets, WCats, WAnd, WTogether}

ScenarioCounts ==
    [w \in ScenarioWords |-> IF w \in {WAnd, WTogether} THEN 1 ELSE 2]

Populated == pc \notin {"off", "detrend", "populate"}

\* C14: on the three-article scenario corpus the pipeline yields the token
\* counts dogs 2, are 2, great 2, pets 2, cats 2, and 1, together 1; all
\* seven words reach the matrices; dogs and cats co-occur once and are at
\* distance 1 - 1/3; any two of are, great, pets are closer to each other
\* than any of them is to "and" or "together".
C14_Scenario ==
    /\ (IsScenario /\ Populated) => hash_words_count = ScenarioCounts
    /\ (IsScenario /\ dist_matrix # <<>>) =>
          /\ ScenarioWords \subseteq DOMAIN short_list
          /\ <<WDogs, WCats>> \in DOMAIN hash_pairs
          /\ hash_pairs[<<WDogs, WCats>>] = 1
          /\ 3 * dist_matrix[short_list[WDogs]][short_list[WCats]] = 2
          /\ \A a \in {WAre, WGreat, WPets}, b \in {WAre, WGreat, WPets} :
                \A far \in {WAnd, WTogether} :
                    dist_matrix[short_list[a]][short_list[b]]
                        < dist_matrix[short_list[a]][short_list[far]]

\* C19: n_words is the length of the shortlist, and the matrix given to the
\* clustering is square of exactly that size in every state after the
\* shortlist is built.
C19_MatrixSizeIsShortlistLength ==
    dist_matrix # <<>> =>
        LET size == Cardinality(DOMAIN short_list)
        IN  /\ n_words = size
            /\ DOMAIN dist_matrix = 0..(size - 1)
            /\ \A i \in DOMAIN dist_matrix : DOMAIN dist_matrix[i] = 0..(size - 1)

\* the steps of main() in program order
StepOrder ==
    <<"detrend", "populate", "relative", "category", "distance", "fit", "plot", "done">>

Position(step) == CHOOSE i \in 1..Len(StepOrder) : StepOrder[i] = step

\* C18: the stages run in one fixed order: a stage starts only when the one
\* before it has fully finished (every row de-trended, every row
\* populated, the matrix built), no stage is started a second time or
\* re-entered, and once the population stage has finished the word tables
\* and the author counters are never modified again.
C18_StagesInOrder ==
    [][ /\ pc' # pc =>
              \/ pc = "fit" /\ pc' = "panicked"
              \/ /\ pc \in {StepOrder[i] : i \in 1..(Len(StepOrder) - 1)}
                 /\ pc' = StepOrder[Position(pc) + 1]
        /\ (pc = "detrend" /\ pc' # pc) => DOMAIN arr_pv_new' = DOMAIN arr_pv
        /\ pc = "detrend" => idx' = 0
        /\ (pc = "populate" /\ pc' # pc) =>
              /\ idx = Len(arr_titles)
              /\ \A r \in DOMAIN arr_categories : arr_categories[r] # <<>>
        /\ (pc = "distance" /\ pc' # pc) => dist_matrix' # <<>>
        /\ pc = "fit" => dist_matrix # <<>>
        /\ pc # "detrend" => UNCHANGED arr_pv_new
        /\ pc # "populate" => UNCHANGED <<words, hash_authors_count, arr_categories, idx>>
      ]_vars

C18_Witness ==
    /\ pc = "done"
    /\ idx = Len(arr_titles)
    /\ idx > AuthorThreshold
    /\ Cardinality(DOMAIN hash_authors_count) = 2
    /\ labels # <<>>

EqualLengths ==
    /\ Len(arr_status) = Len(arr_titles)
    /\ Len(arr_pv) = Len(arr_titles)
    /\ Len(arr_url) = Len(arr_titles)
    /\ Len(arr_author) = Len(arr_titles)

\* C21: if the five input sequences do not all have the same length, the
\* run stops before any stage updates any table, and no default value
\* stands in for a missing field.
C21_LengthMismatchIsFatal ==
    ~EqualLengths =>
        /\ arr_pv_new = <<>>
        /\ hash_authors_count = <<>>
        /\ \A r \in DOMAIN arr_categories : arr_categories[r] = <<>>
        /\ category_count = <<>>
        /\ dist_matrix = <<>>
        /\ labels = <<>>

Sorted(arr) == \A i \in 1..(Len(arr) - 1) : arr[i] <= arr[i + 1]

Times(arr, v) == Cardinality({i \in DOMAIN arr : arr[i] = v})

IsPermutation(a, b) ==
    /\ Len(a) = Len(b)
    /\ \A i \in DOMAIN a : Times(a, a[i]) = Times(b, a[i])

\* C23: radix_sort terminates without a panic for every vector, also one
\* whose maximum is 1,000,000,000 or more, and leaves arr sorted ascending
\* and a permutation of its input.
C23_RadixSortSorts ==
    /\ radix_pc # "panicked"
    /\ radix_pc = "done" =>
          Sorted(radix_arr) /\ IsPermutation(radix_arr, radix_input)

\* arr[0..=end] is a max-heap: no element is greater than its parent
IsMaxHeap(arr, end) ==
    \A i \in 1..end : At(arr, (i - 1) \div 2) >= At(arr, i)

\* C24: heap_sort never indexes outside 0..n-1, before each extraction step
\* the prefix arr[0..=end] is a max-heap, and at the end arr is sorted
\* ascending and a permutation of its input, for every vector (length 0
\* and 1 and duplicates included).
C24_HeapSortSorts ==
    /\ heap_pc # "panicked"
    /\ heap_pc = "extract" => IsMaxHeap(heap_arr, heap_end)
    /\ heap_pc = "done" =>
          Sorted(heap_arr) /\ IsPermutation(heap_arr, heap_input)

\* an unsorted input with a duplicate has been sorted
C24_Witness ==
    /\ heap_pc = "done"
    /\ ~Sorted(heap_input)
    /\ Len(heap_input) >= 4
    /\ \E i, j \in DOMAIN heap_input : i < j /\ heap_input[i] = heap_input[j]
    /\ heap_arr # heap_input

HasSession == SessionId \in DOMAIN sessions

NoDuplicates(list) ==
    \A i, j \in DOMAIN list : i # j => list[i] # list[j]

\* C25: the difficulty of a session created by generate_image_handler is
\* always one of the five levels; a process_chat call never lowers it,
\* raises it by at most one level and only when the evaluation sets
\* advance_difficulty, and leaves it at "Very Detailed" once there.
C25_DifficultyLadder ==
    /\ [](HasSession => position(sessions[SessionId].difficulty) # 0)
    /\ [][HasSession =>
            LET before == position(sessions[SessionId].difficulty)
                after == position(sessions'[SessionId].difficulty)
            IN  /\ after >= before
                /\ after <= before + 1
                /\ after > before => call'.evaluation.advance_difficulty
                /\ before = Len(difficulties) => after = before]_vars

\* a call that asked to advance at "Very Detailed" has returned
C25_Witness ==
    /\ HasSession
    /\ call.outcome = "returned"
    /\ call.difficulty = "Very Detailed"
    /\ call.evaluation.advance_difficulty
    /\ sessions[SessionId].difficulty = "Very Detailed"

====
